---- MODULE Spec2Model ----
(***************************************************************************)
(* testable: a generator that reads the packages of a Go source directory  *)
(* and emits, per package, an interface package and a wrapper package.     *)
(*                                                                         *)
(* A Go string / []byte is a sequence of tokens ("Str").  A token stands   *)
(* for a run of bytes that no operation of the program cuts in two: an     *)
(* identifier fragment, a punctuation mark, one blank, one tab, one line   *)
(* break.  Positions, offsets and lengths count tokens.  The fragment      *)
(* "iface" is always a token of its own, so that "a" + "iface" and the     *)
(* package name "aiface" are the same Str.                                 *)
(***************************************************************************)
EXTENDS Integers, Sequences, FiniteSets, TLC

VARIABLES
    inFlag,      \* -input
    outFlag,     \* -output
    dir,         \* the target directory: its files, in listing order
    pc,          \* position of main
    out,         \* main: *out after filepath.Abs
    basePkg,     \* main: basePkg
    astPkgs,     \* parsePkg's result: package name -> files (with positions)
    todo,        \* keys a `range` over a map has still to visit
    cur,         \* getSubpackages: the package of the current iteration
    methods,     \* getStructs: methods
    fields,      \* getStructs: fields
    subpkgs,     \* getSubpackages: subpkgMap
    built,       \* genCode: per package, what buildIfaces and buildImpls returned,
                 \* and whether both were called
    ifacePkgs,   \* genCode: ifacePkgsMap
    implPkgs,    \* genCode: implPkgsMap
    dirs,        \* file system: directories made by MkdirAll
    fs,          \* file system: path -> text written by WriteFile
    writes,      \* history: the paths WriteFile was called with, in order
    failed,      \* history: the kinds of failure that have occurred
    exit,        \* exit status; -1 while running
    second,      \* TRUE in the second of two runs on the same input
    prev         \* the maps genCode returned in the first run

vars == <<inFlag, outFlag, dir, pc, out, basePkg, astPkgs, todo, cur, methods,
          fields, subpkgs, built, ifacePkgs, implPkgs, dirs, fs, writes,
          failed, exit, second, prev>>

---------------------------------------------------------------------------
(* Strings *)

RECURSIVE Concat(_)
Concat(ss) == IF ss = <<>> THEN <<>> ELSE Head(ss) \o Concat(Tail(ss))

RECURSIVE JoinStr(_, _)
JoinStr(ss, sep) ==
    IF ss = <<>> THEN <<>>
    ELSE IF Len(ss) = 1 THEN ss[1]
    ELSE ss[1] \o sep \o JoinStr(Tail(ss), sep)

\* the k-th smallest element of a set of numbers
Nth(S, k) == CHOOSE i \in S : Cardinality({j \in S : j < i}) = k - 1

\* strings.Split(s, sep) for a one-token separator
Split(s, sep) ==
    LET seps == {i \in 1..Len(s) : s[i] = sep}
        n    == Cardinality(seps)
    IN [k \in 1..(n + 1) |->
          SubSeq(s, IF k = 1 THEN 1 ELSE Nth(seps, k - 1) + 1,
                    IF k = n + 1 THEN Len(s) ELSE Nth(seps, k) - 1)]

HasPrefix(s, p) == Len(s) >= Len(p) /\ SubSeq(s, 1, Len(p)) = p

Contains(s, tok) == \E i \in 1..Len(s) : s[i] = tok

Range(f) == {f[x] : x \in DOMAIN f}

\* every ordering of a finite set, as sequences without repetition
Orders(S) ==
    {p \in [1..Cardinality(S) -> S] : \A i, j \in 1..Cardinality(S) : p[i] = p[j] => i = j}

\* tokens that begin with an upper-case letter
UpperTokens == {"Foo", "Baz", "Tst", "Num", "A", "B", "C", "Get", "Put", "Run", "Val"}

\* tokens that are identifier fragments
IdentTokens ==
    UpperTokens \cup {"bar", "int", "a", "b", "d", "v", "n", "e", "x", "hid", "free", "iface"}

\* ast.IsExported
IsExported(name) == name # <<>> /\ name[1] \in UpperTokens

---------------------------------------------------------------------------
(* The target directory: declarations, files, and the text they are parsed *)
(* from.  A file's text is printed from its declarations, and every node   *)
(* gets the offset in that text at which the parser finds it.              *)

G(names, type) == [names |-> names, type |-> type]

TInt == <<"int">>
TFoo == <<"Foo">>
TPFoo == <<"*", "Foo">>
TPPFoo == <<"*", "*", "Foo">>

TypeDecl(name, isStruct, flds) ==
    [kind |-> "type", name |-> name, isStruct |-> isStruct, fields |-> flds,
     recv |-> <<>>, params |-> <<>>, results |-> <<>>]

FuncDecl(recv, name, params, results) ==
    [kind |-> "func", name |-> name, isStruct |-> FALSE, fields |-> <<>>,
     recv |-> recv, params |-> params, results |-> results]

\* f1.go: a struct with exported and unexported fields, a field group and a
\* method with a parameter group; a named non-struct type with a method; an
\* exported struct without methods
Body1 ==
    << TypeDecl("Foo", TRUE, <<G(<<"A">>, TInt), G(<<"B", "C">>, TPFoo), G(<<"d">>, TInt)>>),
       FuncDecl(TPFoo, "Get", <<G(<<"a", "b">>, TFoo)>>, <<G(<<>>, TPFoo)>>),
       TypeDecl("Num", FALSE, <<>>),
       FuncDecl(<<"Num">>, "Val", <<>>, <<G(<<"n">>, TInt), G(<<"e">>, TPPFoo)>>),
       TypeDecl("Baz", TRUE, <<G(<<"A">>, TFoo)>>) >>

\* f2.go: an unexported struct with an exported method of unnamed parameters
Body2 ==
    << TypeDecl("bar", TRUE, <<G(<<"A">>, TInt)>>),
       FuncDecl(<<"bar">>, "Run", <<G(<<>>, TInt), G(<<>>, TFoo)>>, <<>>) >>

\* f3.go: methods declared apart from their type, one of them unexported
Body3 ==
    << FuncDecl(TPFoo, "Put", <<G(<<"v">>, TFoo)>>, <<>>),
       FuncDecl(TPFoo, "hid", <<>>, <<>>) >>

\* f4.go: a function, no type and no method
Body4 == << FuncDecl(<<>>, "free", <<G(<<"a">>, TInt)>>, <<>>) >>

\* f5_test.go: a file the directory filter leaves out
Body5 == << TypeDecl("Tst", TRUE, <<G(<<"A">>, TInt)>>) >>

FileNames ==
    << <<"f1", ".go">>, <<"f2", ".go">>, <<"f3", ".go">>, <<"f4", ".go">>,
       <<"f5", "_", "test", ".go">> >>

Bodies == <<Body1, Body2, Body3, Body4, Body5>>

PkgA == <<"a">>
PkgAiface == <<"a", "iface">>
PkgNames == {PkgA, PkgAiface}

\* the largest number of files in the target directory
MaxFiles == 2

GroupText(g) ==
    (IF g.names = <<>> THEN <<>>
     ELSE JoinStr([i \in 1..Len(g.names) |-> <<g.names[i]>>], <<",", " ">>) \o <<" ">>)
    \o g.type

\* the text of a list of groups from offset off on, and the groups with the
\* offsets of their types
RECURSIVE PrintList(_, _, _, _, _, _)
PrintList(groups, off, sep, i, text, nodes) ==
    IF i > Len(groups) THEN [text |-> text, nodes |-> nodes]
    ELSE LET pre  == IF i = 1 THEN <<>> ELSE sep
             g    == groups[i]
             tpos == off + Len(text) + Len(pre) + Len(GroupText(g)) - Len(g.type)
         IN PrintList(groups, off, sep, i + 1, text \o pre \o GroupText(g),
                      Append(nodes, [names |-> g.names, type |-> g.type,
                                     typePos |-> tpos,
                                     typeEnd |-> tpos + Len(g.type)]))

\* one declaration printed at offset off: its text and its node
PrintDecl(d, off) ==
    IF d.kind = "type" THEN
        LET head == <<"type", " ", d.name, " ">>
        IN IF d.isStruct THEN
               LET open == head \o <<"struct", " ", "{", "\n">>
                   fl   == PrintList(d.fields, off + Len(open) + 1, <<"\n", "\t">>, 1, <<>>, <<>>)
                   body == IF d.fields = <<>> THEN <<>> ELSE <<"\t">> \o fl.text \o <<"\n">>
               IN [text |-> open \o body \o <<"}", "\n">>,
                   node |-> [d EXCEPT !.fields = fl.nodes] @@
                            [structPos |-> off + Len(head), recvPos |-> 0, recvEnd |-> 0]]
           ELSE [text |-> head \o TInt \o <<"\n">>,
                 node |-> d @@ [structPos |-> 0, recvPos |-> 0, recvEnd |-> 0]]
    ELSE
        LET rcv   == IF d.recv = <<>> THEN <<>> ELSE <<"(", "x", " ">> \o d.recv \o <<")", " ">>
            head  == <<"func", " ">> \o rcv \o <<d.name, "(">>
            ps    == PrintList(d.params, off + Len(head), <<",", " ">>, 1, <<>>, <<>>)
            mid   == head \o ps.text \o <<")">>
            bare  == Len(d.results) = 1 /\ d.results[1].names = <<>>
            ropen == IF d.results = <<>> THEN <<>>
                     ELSE IF bare THEN <<" ">> ELSE <<" ", "(">>
            rs    == PrintList(d.results, off + Len(mid) + Len(ropen), <<",", " ">>, 1, <<>>, <<>>)
            rclose == IF d.results = <<>> \/ bare THEN <<>> ELSE <<")">>
        IN [text |-> mid \o ropen \o rs.text \o rclose \o <<" ", "{", "}", "\n">>,
            node |-> [d EXCEPT !.params = ps.nodes, !.results = rs.nodes] @@
                     [structPos |-> 0,
                      recvPos |-> IF d.recv = <<>> THEN 0 ELSE off + 5,
                      recvEnd |-> IF d.recv = <<>> THEN 0 ELSE off + 5 + Len(d.recv)]]

RECURSIVE PrintDecls(_, _, _, _)
PrintDecls(ds, i, text, nodes) ==
    IF i > Len(ds) THEN [text |-> text, nodes |-> nodes]
    ELSE LET p == PrintDecl(ds[i], Len(text))
         IN PrintDecls(ds, i + 1, text \o p.text, Append(nodes, p.node))

\* a source file of the catalogue, in package pkg
SourceFile(id, pkg) ==
    LET p == PrintDecls(Bodies[id], 1, <<"package", " ">> \o pkg \o <<"\n">>, <<>>)
    IN [id |-> id, name |-> FileNames[id], pkg |-> pkg, src |-> p.text, decls |-> p.nodes]

\* the directories: at most MaxFiles files of the catalogue, listed by name
Dirs ==
    {d \in UNION {[1..n -> {SourceFile(id, pkg) : id \in 1..Len(Bodies), pkg \in PkgNames}]
                  : n \in 0..MaxFiles} :
        \A i \in 1..Len(d) : \A j \in 1..Len(d) : i < j => d[i].id < d[j].id}

---------------------------------------------------------------------------
(* parsePkg: parser.ParseDir over the directory *)

\* the filter of parsePkg: no file whose name contains "test"
Filter(name) == ~Contains(name, "test")

\* token.FileSet.AddFile: the files parsed get consecutive ranges of
\* positions, the first from 1, each next one after the size of the last
RECURSIVE AddFiles(_, _, _, _)
AddFiles(d, i, base, acc) ==
    IF i > Len(d) THEN acc
    ELSE IF ~Filter(d[i].name) THEN AddFiles(d, i + 1, base, acc)
    ELSE AddFiles(d, i + 1, base + Len(d[i].src) + 1,
                  Append(acc, d[i] @@ [base |-> base]))

\* parser.ParseDir: package name -> the files of that package
ParseDir(d) ==
    LET fset == AddFiles(d, 1, 1, <<>>)
        names == {fset[i].pkg : i \in 1..Len(fset)}
    IN [p \in names |-> {fset[i] : i \in {j \in 1..Len(fset) : fset[j].pkg = p}}]

---------------------------------------------------------------------------
(* getMethods, getFields, getStructs *)

Field(name, type) == [Name |-> name, Type |-> type]

Method(name, params, results) == [Name |-> name, Params |-> params, Results |-> results]

\* src[lo:hi] of Go.  The slice ioutil.ReadFile returns has spare capacity
\* behind its length; roomy says whether hi still lies within it, and the
\* bytes behind the length are zero
Slice(src, lo, hi, roomy) ==
    [ok  |-> lo >= 0 /\ lo <= hi /\ (hi <= Len(src) \/ roomy),
     val |-> [i \in 1..(hi - lo) |-> IF lo + i <= Len(src) THEN src[lo + i] ELSE "NUL"]]

\* text of the node at offsets from..to of file f: src[Pos()-1 : End()-1]
NodeText(f, from, to, roomy) == Slice(f.src, f.base + from - 1, f.base + to - 1, roomy)

\* maker.GetReceiverTypeName: "" and nil for what is no method, else the
\* text of the receiver's type without a leading '*'
GetReceiverTypeName(f, decl, roomy) ==
    IF decl.kind # "func" \/ decl.recv = <<>>
    THEN [ok |-> TRUE, fd |-> FALSE, a |-> <<>>]
    ELSE LET s == NodeText(f, decl.recvPos, decl.recvEnd, roomy)
         IN [ok |-> s.ok, fd |-> TRUE,
             a  |-> IF s.ok /\ s.val # <<>> /\ s.val[1] = "*" THEN Tail(s.val)
                    ELSE IF s.ok THEN s.val ELSE <<>>]

RECURSIVE getMethodFields(_, _, _, _, _)
getMethodFields(f, astFields, roomy, i, acc) ==
    IF i > Len(astFields) THEN [ok |-> TRUE, val |-> acc]
    ELSE LET g == astFields[i]
             t == NodeText(f, g.typePos, g.typeEnd, roomy)
         IN IF ~t.ok THEN [ok |-> FALSE, val |-> <<>>]
            ELSE getMethodFields(f, astFields, roomy, i + 1,
                     Append(acc, Field(IF Len(g.names) > 0 THEN <<g.names[1]>> ELSE <<>>,
                                       t.val)))

\* m with value v under key k
Put(m, k, v) == [x \in DOMAIN m \cup {k} |-> IF x = k THEN v ELSE m[x]]

\* the declarations of one file, lines 290-318
RECURSIVE MethodsOfDecls(_, _, _, _)
MethodsOfDecls(f, roomy, i, mm) ==
    IF i > Len(f.decls) THEN [ok |-> TRUE, val |-> mm]
    ELSE LET decl == f.decls[i]
             r    == GetReceiverTypeName(f, decl, roomy)
         IN IF ~r.ok THEN [ok |-> FALSE, val |-> mm]
            ELSE IF r.fd /\ IsExported(<<decl.name>>) THEN
                LET params  == getMethodFields(f, decl.params, roomy, 1, <<>>)
                    results == getMethodFields(f, decl.results, roomy, 1, <<>>)
                    old     == IF r.a \in DOMAIN mm THEN mm[r.a] ELSE <<>>
                IN IF ~params.ok \/ ~results.ok THEN [ok |-> FALSE, val |-> mm]
                   ELSE MethodsOfDecls(f, roomy, i + 1,
                            Put(mm, r.a, Append(old, Method(<<decl.name>>, params.val,
                                                            results.val))))
            ELSE MethodsOfDecls(f, roomy, i + 1, mm)

\* getMethods over pkg.Files in the order the map yields them; a file that
\* cannot be read is passed over; ok is FALSE when an index is out of range;
\* at is the number of files the loop came to
RECURSIVE getMethods(_, _, _, _, _)
getMethods(order, status, roomy, i, mm) ==
    IF i > Len(order) THEN [ok |-> TRUE, val |-> mm, at |-> Len(order)]
    ELSE IF status[order[i].id] = "noread" THEN getMethods(order, status, roomy, i + 1, mm)
    ELSE LET r == MethodsOfDecls(order[i], roomy, 1, mm)
         IN IF ~r.ok THEN [ok |-> FALSE, val |-> mm, at |-> i]
            ELSE getMethods(order, status, roomy, i + 1, r.val)

\* token.FileSet.Position(p).Line in a file set that holds src alone, from
\* position 1: 0 when p is no position of the file
LineOf(src, p) ==
    IF p < 1 \/ p > 1 + Len(src) THEN 0
    ELSE 1 + Cardinality({j \in 1..Len(src) : src[j] = "\n" /\ j <= p - 1 /\ j < Len(src)})

\* getStructName: the second blank-separated word of the line of st.Pos()
getStructName(f, st) ==
    LET lines == Split(f.src, "\n")
        n     == LineOf(f.src, f.base + st.structPos)
        words == IF n >= 1 /\ n <= Len(lines) THEN Split(lines[n], " ") ELSE <<>>
    IN [ok |-> n >= 1 /\ n <= Len(lines) /\ Len(words) >= 2,
        val |-> IF Len(words) >= 2 THEN words[2] ELSE <<>>]

\* lines 360-371: the exported named fields of one struct type
RECURSIVE ExportedFields(_, _, _, _, _)
ExportedFields(f, list, roomy, i, acc) ==
    IF i > Len(list) THEN [ok |-> TRUE, val |-> acc]
    ELSE LET g == list[i]
         IN IF Len(g.names) > 0 /\ IsExported(<<g.names[1]>>) THEN
                LET t == NodeText(f, g.typePos, g.typeEnd, roomy)
                IN IF ~t.ok THEN [ok |-> FALSE, val |-> <<>>]
                   ELSE ExportedFields(f, list, roomy, i + 1,
                                       Append(acc, Field(<<g.names[1]>>, t.val)))
            ELSE ExportedFields(f, list, roomy, i + 1, acc)

\* ast.Inspect over one file, lines 355-376
RECURSIVE InspectFile(_, _, _, _)
InspectFile(f, roomy, i, fm) ==
    IF i > Len(f.decls) THEN [st |-> "ok", val |-> fm]
    ELSE IF ~f.decls[i].isStruct THEN InspectFile(f, roomy, i + 1, fm)
    ELSE LET structName == getStructName(f, f.decls[i])
         IN IF ~structName.ok THEN [st |-> "panic", val |-> fm]
            ELSE IF IsExported(structName.val) THEN
                LET ef == ExportedFields(f, f.decls[i].fields, roomy, 1, <<>>)
                IN IF ~ef.ok THEN [st |-> "panic", val |-> fm]
                   ELSE InspectFile(f, roomy, i + 1, Put(fm, structName.val, ef.val))
            ELSE InspectFile(f, roomy, i + 1, fm)

\* getFields over pkg.Files in the order the map yields them
RECURSIVE getFields(_, _, _, _, _)
getFields(order, status, roomy, i, fm) ==
    IF i > Len(order) THEN [st |-> "ok", val |-> fm, at |-> Len(order)]
    ELSE IF status[order[i].id] = "noread" THEN getFields(order, status, roomy, i + 1, fm)
    ELSE IF status[order[i].id] = "noparse" THEN [st |-> "err", val |-> fm, at |-> i]
    ELSE LET r == InspectFile(order[i], roomy, 1, fm)
         IN IF r.st # "ok" THEN [st |-> r.st, val |-> fm, at |-> i]
            ELSE getFields(order, status, roomy, i + 1, r.val)

Struct(name, ms, fs_) == [Name |-> name, Methods |-> ms, Fields |-> fs_]

\* getStructs, lines 260-277: structMap after both loops.  The record made
\* for a name that has fields and no methods is not put into the map
StructMap(mm, fm) ==
    [st \in DOMAIN mm |-> Struct(st, mm[st], IF st \in DOMAIN fm THEN fm[st] ELSE <<>>)]

\* getStructs, lines 279-284: the records in the order the map yields them
getStructs(mm, fm, order) == [i \in 1..Len(order) |-> StructMap(mm, fm)[order[i]]]

\* Package of getSubpackages, lines 232-237
Package(name, importPath, structs) ==
    [Name |-> name, ImportPath |-> importPath, Structs |-> structs]

---------------------------------------------------------------------------
(* buildIfaces, buildImpls and the templates of genCode *)

Sep == <<",", " ">>

\* pkgContainsType
pkgContainsType(pkg, typ) == \E i \in 1..Len(pkg.Structs) : pkg.Structs[i].Name = typ

\* maybeAddIfacePkg without the '*' put back in front
maybeAddIfacePkg_NoStar(pkg, typ) ==
    LET isPtr == typ[1] = "*"
        t1    == IF isPtr THEN Tail(typ) ELSE typ
    IN [ok  |-> typ # <<>>,
        val |-> IF typ = <<>> THEN <<>>
                ELSE IF \E i \in 1..Len(pkg.Structs) : pkg.Structs[i].Name = t1
                THEN pkg.Name \o <<"iface", ".">> \o t1 ELSE t1]

\* maybeAddIfacePkg; typ[0] of an empty typ is out of range
maybeAddIfacePkg(pkg, typ) ==
    LET isPtr == typ[1] = "*"
        t1    == IF isPtr THEN Tail(typ) ELSE typ
        t2    == IF pkgContainsType(pkg, t1) THEN pkg.Name \o <<"iface", ".">> \o t1 ELSE t1
    IN [ok  |-> typ # <<>>,
        val |-> IF typ = <<>> THEN <<>> ELSE IF isPtr THEN <<"*">> \o t2 ELSE t2]

\* toList of buildIfaces
ifaceToList(fs_) ==
    JoinStr([i \in 1..Len(fs_) |-> fs_[i].Name \o <<" ">> \o fs_[i].Type], Sep)

\* toList of buildImpls with the separator put before the first entry too
implToList_LeadingSep(pkg, fs_) ==
    Concat([i \in 1..Len(fs_) |->
              Sep \o fs_[i].Name \o <<" ">> \o maybeAddIfacePkg(pkg, fs_[i].Type).val])

\* toList of buildImpls
implToList(pkg, fs_) ==
    JoinStr([i \in 1..Len(fs_) |->
                fs_[i].Name \o <<" ">> \o maybeAddIfacePkg(pkg, fs_[i].Type).val], Sep)

\* argList of buildImpls
argList(fs_) == JoinStr([i \in 1..Len(fs_) |-> fs_[i].Name], Sep)

\* what the template of buildIfaces puts into its holes for one struct
IfaceDecl(st) ==
    [Name    |-> st.Name,
     Fields  |-> [i \in 1..Len(st.Fields) |->
                    [Name |-> st.Fields[i].Name, Type |-> st.Fields[i].Type]],
     Methods |-> [i \in 1..Len(st.Methods) |->
                    [Name    |-> st.Methods[i].Name,
                     Params  |-> ifaceToList(st.Methods[i].Params),
                     Results |-> ifaceToList(st.Methods[i].Results)]]]

\* the layout of the template of buildIfaces, lines 390-400, in pieces
IfaceText(d) ==
    << <<"\n", "type", " ">> \o d.Name \o <<" ", "interface", " ", "{", "\n">> >>
    \o [i \in 1..Len(d.Fields) |->
          <<"\n", "    ">> \o d.Fields[i].Name \o <<"(", ")", " ">>
          \o d.Fields[i].Type \o <<"\n">>]
    \o << <<"\n", "\n">> >>
    \o [i \in 1..Len(d.Methods) |->
          <<"\n", "    ">> \o d.Methods[i].Name \o <<"(">> \o d.Methods[i].Params
          \o <<")", " ", "(">> \o d.Methods[i].Results \o <<")", "\n">>]
    \o << <<"\n", "}", "\n">> >>

\* buildIfaces: one declaration per struct of pkg.Structs, in its order
buildIfaces(pkg) == [i \in 1..Len(pkg.Structs) |-> IfaceDecl(pkg.Structs[i])]

\* what the template of buildImpls puts into its holes for one struct
ImplDecl(pkg, st) ==
    [PkgName    |-> pkg.Name,
     StructName |-> st.Name,
     Fields  |-> [i \in 1..Len(st.Fields) |->
                    [Name |-> st.Fields[i].Name,
                     Type |-> maybeAddIfacePkg(pkg, st.Fields[i].Type).val,
                     Ret  |-> <<"x", ".", "parent", ".">> \o st.Fields[i].Name]],
     Methods |-> [i \in 1..Len(st.Methods) |->
                    [Name    |-> st.Methods[i].Name,
                     Params  |-> implToList(pkg, st.Methods[i].Params),
                     Results |-> implToList(pkg, st.Methods[i].Results),
                     Callee  |-> <<"x", ".", "parent", ".">> \o st.Methods[i].Name,
                     Args    |-> argList(st.Methods[i].Params)]]]

\* the layout of the template of buildImpls, lines 432-448, in pieces
ImplText(d) ==
    << <<"\n", "type", " ">> \o d.StructName \o <<" ", "struct", " ", "{", "\n", "    ",
         "parent", " ", "*">> \o d.PkgName \o <<".">> \o d.StructName
         \o <<"\n", "}", "\n", "\n">> >>
    \o [i \in 1..Len(d.Fields) |->
          <<"\n", "func", " ", "(", "x", " ", "*">> \o d.StructName \o <<")">>
          \o d.Fields[i].Name \o <<"(", ")", " ", "(">> \o d.Fields[i].Type
          \o <<")", " ", "{", "\n", "    ", "return", " ">> \o d.Fields[i].Ret
          \o <<"\n", "}", "\n">>]
    \o << <<"\n", "\n">> >>
    \o [i \in 1..Len(d.Methods) |->
          <<"\n", "func", " ", "(", "x", " ", "*">> \o d.StructName \o <<")", " ">>
          \o d.Methods[i].Name \o <<"(">> \o d.Methods[i].Params
          \o <<")", " ", "(">> \o d.Methods[i].Results
          \o <<")", " ", "{", "\n", "    ", "return", " ">> \o d.Methods[i].Callee
          \o <<"(">> \o d.Methods[i].Args \o <<")", "\n", "}", "\n">>]
    \o << <<"\n">> >>

\* buildImpls: one declaration per struct of pkg.Structs, in its order
buildImpls(pkg) == [i \in 1..Len(pkg.Structs) |-> ImplDecl(pkg, pkg.Structs[i])]

Header == "// Auto generated code DO NOT EDIT"

\* ifaceTmpl of genCode, lines 125-132, in pieces
IfaceFile(name, ifaces) ==
    << <<"\n", Header, "\n", "package", " ">> \o name \o <<"iface", "\n", "\n">> >>
    \o Concat([i \in 1..Len(ifaces) |-> << <<"\n">> >> \o IfaceText(ifaces[i]) \o << <<"\n">> >>])
    \o << <<"\n">> >>

\* implTmpl of genCode, lines 134-144, in pieces
ImplFile(name, importPath, base, impls) ==
    << <<"\n", Header, "\n", "package", " ">> \o name \o <<"\n", "\n", "import", " ", "\"">>
         \o importPath \o <<"\"", "\n", "import", " ", "\"">> \o base \o <<"/">> \o name
         \o <<"iface", "\"", "\n", "\n">> >>
    \o Concat([i \in 1..Len(impls) |-> << <<"\n">> >> \o ImplText(impls[i]) \o << <<"\n">> >>])
    \o << <<"\n">> >>

---------------------------------------------------------------------------
(* format.Source: the text is parsed, and printed in gofmt's layout *)

Blank(tok) == tok \in {" ", "\t", "    "}

RECURSIVE TrimLeft(_)
TrimLeft(s) == IF s # <<>> /\ Blank(Head(s)) THEN TrimLeft(Tail(s)) ELSE s

RECURSIVE TrimRight(_)
TrimRight(s) ==
    IF s # <<>> /\ Blank(s[Len(s)]) THEN TrimRight(SubSeq(s, 1, Len(s) - 1)) ELSE s

Trim(s) == TrimRight(TrimLeft(s))

\* an identifier
IsIdent(s) == s # <<>> /\ \A i \in 1..Len(s) : s[i] \in IdentTokens

\* a type expression: T, pkg.T, and pointers to these
RECURSIVE IsTypeExpr(_)
IsTypeExpr(s) ==
    /\ s # <<>>
    /\ \/ IsIdent(s)
       \/ \E i \in 2..(Len(s) - 1) :
            s[i] = "." /\ IsIdent(SubSeq(s, 1, i - 1)) /\ IsIdent(SubSeq(s, i + 1, Len(s)))
       \/ s[1] = "*" /\ IsTypeExpr(TrimLeft(Tail(s)))

\* one entry of a parameter or result list: a type, or a name and a type
IsParam(s) ==
    \/ IsTypeExpr(Trim(s))
    \/ LET t == Trim(s)
       IN Len(t) >= 3 /\ IsIdent(<<t[1]>>) /\ Blank(t[2])
          /\ IsTypeExpr(Trim(SubSeq(t, 3, Len(t))))

\* a parameter or result list between its parentheses
IsParamList(s) ==
    \/ Trim(s) = <<>>
    \/ LET parts == Split(s, ",") IN \A i \in 1..Len(parts) : IsParam(parts[i])

\* the arguments of a call between its parentheses
IsArgList(s) ==
    \/ Trim(s) = <<>>
    \/ LET parts == Split(s, ",") IN \A i \in 1..Len(parts) : IsIdent(Trim(parts[i]))

\* whether the parser accepts the interface file made of these declarations
IfaceSyntaxOK(ifaces) ==
    \A i \in 1..Len(ifaces) :
        /\ IsIdent(Trim(ifaces[i].Name))
        /\ \A j \in 1..Len(ifaces[i].Fields) :
             /\ IsIdent(ifaces[i].Fields[j].Name)
             /\ IsTypeExpr(Trim(ifaces[i].Fields[j].Type))
        /\ \A j \in 1..Len(ifaces[i].Methods) :
             /\ IsIdent(ifaces[i].Methods[j].Name)
             /\ IsParamList(ifaces[i].Methods[j].Params)
             /\ IsParamList(ifaces[i].Methods[j].Results)

\* whether the parser accepts the wrapper file made of these declarations
ImplSyntaxOK(impls) ==
    \A i \in 1..Len(impls) :
        /\ IsIdent(Trim(impls[i].StructName))
        /\ \A j \in 1..Len(impls[i].Fields) :
             /\ IsIdent(impls[i].Fields[j].Name)
             /\ IsTypeExpr(Trim(impls[i].Fields[j].Type))
        /\ \A j \in 1..Len(impls[i].Methods) :
             /\ IsIdent(impls[i].Methods[j].Name)
             /\ IsParamList(impls[i].Methods[j].Params)
             /\ IsParamList(impls[i].Methods[j].Results)
             /\ IsArgList(impls[i].Methods[j].Args)

\* gofmt's layout of one piece that follows nl line breaks, as far as the
\* templates' output needs it: no blank line at the start of the file, at most
\* one blank line in a row, tabs for indentation.  A piece of the templates
\* has runs of more than two line breaks at its start only
Layout(s, nl) ==
    LET text == {i \in 1..Len(s) : s[i] # "\n"}
        lead == IF text = {} THEN Len(s) ELSE (CHOOSE i \in text : \A j \in text : i <= j) - 1
        room == IF nl >= 2 THEN 0 ELSE 2 - nl
        kept == IF lead < room THEN lead ELSE room
    IN [i \in 1..kept |-> "\n"]
       \o [i \in 1..(Len(s) - lead) |->
             IF s[lead + i] = "    " THEN "\t" ELSE s[lead + i]]

\* the number of line breaks, at most 2, that end a piece following nl of them
BreaksAfter(s, nl) ==
    LET last == {i \in 1..Len(s) : s[i] # "\n"}
        k    == IF last = {} THEN nl + Len(s)
                ELSE Len(s) - (CHOOSE i \in last : \A j \in last : j <= i)
    IN IF k > 2 THEN 2 ELSE k

RECURSIVE LayoutAll(_, _, _, _)
LayoutAll(pieces, i, nl, acc) ==
    IF i > Len(pieces) THEN acc
    ELSE LayoutAll(pieces, i + 1, BreaksAfter(pieces[i], nl), acc \o Layout(pieces[i], nl))

\* format.Source of the text the pieces make up
Format(pieces, syntaxOK) ==
    [ok |-> syntaxOK, val |-> IF syntaxOK THEN LayoutAll(pieces, 1, 2, <<>>) ELSE <<>>]

---------------------------------------------------------------------------
(* main *)

Cwd == <<"/", "go", "/", "src", "/", "w">>
GoPath == <<"/", "go">>

\* path.Join of two cleaned paths
Join(a, b) == IF a = <<>> THEN b ELSE IF b = <<>> THEN a ELSE a \o <<"/">> \o b

\* filepath.Abs that leaves a relative path as it is
Abs_Relative(path) == path

\* filepath.Abs
Abs(path) == IF path # <<>> /\ path[1] = "/" THEN path ELSE Join(Cwd, path)

\* strings.TrimPrefix
TrimPrefix(s, prefix) ==
    IF HasPrefix(s, prefix) THEN SubSeq(s, Len(prefix) + 1, Len(s)) ELSE s

InFlags == {<<>>, <<"lib">>}
OutFlags == {<<>>, <<"o">>, <<"/", "t">>}

---------------------------------------------------------------------------
(* The run *)

Init ==
    /\ inFlag \in InFlags
    /\ outFlag \in OutFlags
    /\ dir \in Dirs
    /\ pc = "main"
    /\ out = <<>>
    /\ basePkg = <<>>
    /\ astPkgs = <<>>
    /\ todo = {}
    /\ cur = <<>>
    /\ methods = <<>>
    /\ fields = <<>>
    /\ subpkgs = <<>>
    /\ built = <<>>
    /\ ifacePkgs = <<>>
    /\ implPkgs = <<>>
    /\ dirs = {}
    /\ fs = <<>>
    /\ writes = <<>>
    /\ failed = {}
    /\ exit = -1
    /\ second = FALSE
    /\ prev = <<>>

\* os.Exit(status), or the end of main, or a panic (status 2)
Exit(status, why) ==
    /\ pc' = "exit"
    /\ exit' = status
    /\ failed' = failed \cup why

\* main, lines 61-78
Main ==
    /\ pc = "main"
    /\ IF inFlag = <<>>
       THEN /\ Exit(1, {"usage"})
            /\ UNCHANGED <<out, basePkg>>
       ELSE /\ out' = Abs(outFlag)
            /\ basePkg' = TrimPrefix(Abs(outFlag), Join(GoPath, <<"src">>) \o <<"/">>)
            /\ pc' = "parsePkg"
            /\ UNCHANGED <<exit, failed>>
    /\ UNCHANGED <<inFlag, outFlag, dir, astPkgs, todo, cur, methods, fields, subpkgs,
                   built, ifacePkgs, implPkgs, dirs, fs, writes, second, prev>>

\* getSubpackages, lines 217-222: parsePkg; the directory may fail to parse
ParsePkg ==
    /\ pc = "parsePkg"
    /\ \E ok \in BOOLEAN :
         IF ok THEN /\ astPkgs' = ParseDir(dir)
                    /\ todo' = DOMAIN ParseDir(dir)
                    /\ pc' = "getSubpackages"
                    /\ UNCHANGED <<exit, failed>>
         ELSE /\ Exit(1, {"parse"})
              /\ UNCHANGED <<astPkgs, todo>>
    /\ UNCHANGED <<inFlag, outFlag, dir, out, basePkg, cur, methods, fields, subpkgs,
                   built, ifacePkgs, implPkgs, dirs, fs, writes, second, prev>>

\* the files of order[1..n] that could not be read
Unread(order, status, n) ==
    IF \E i \in 1..Len(order) : i <= n /\ status[order[i].id] = "noread"
    THEN {"read"} ELSE {}

\* getSubpackages, line 223, and getStructs, lines 248-253: the next package
\* of the range, and its methods
GetMethods ==
    /\ pc = "getSubpackages"
    /\ \E p \in todo :
       \E order \in Orders(astPkgs[p]) :
       \E status \in [{f.id : f \in astPkgs[p]} -> {"ok", "noread"}] :
       \E roomy \in BOOLEAN :
         LET r == getMethods(order, status, roomy, 1, <<>>)
         IN /\ cur' = p
            /\ IF r.ok THEN /\ methods' = r.val
                            /\ pc' = "getFields"
                            /\ failed' = failed \cup Unread(order, status, r.at)
                            /\ UNCHANGED exit
               ELSE /\ Exit(2, {"getMethods panic"} \cup Unread(order, status, r.at))
                    /\ UNCHANGED methods
    /\ UNCHANGED <<inFlag, outFlag, dir, out, basePkg, astPkgs, todo, fields, subpkgs,
                   built, ifacePkgs, implPkgs, dirs, fs, writes, second, prev>>

\* getStructs, lines 255-258
GetFields ==
    /\ pc = "getFields"
    /\ \E order \in Orders(astPkgs[cur]) :
       \E status \in [{f.id : f \in astPkgs[cur]} -> {"ok", "noread", "noparse"}] :
       \E roomy \in BOOLEAN :
         LET r == getFields(order, status, roomy, 1, <<>>)
         IN IF r.st = "ok" THEN /\ fields' = r.val
                                /\ pc' = "getStructs"
                                /\ failed' = failed \cup Unread(order, status, r.at)
                                /\ UNCHANGED exit
            ELSE IF r.st = "err"
                 THEN /\ Exit(1, {"reparse"} \cup Unread(order, status, r.at))
                      /\ UNCHANGED fields
            ELSE /\ Exit(2, {"getFields panic"} \cup Unread(order, status, r.at))
                 /\ UNCHANGED fields
    /\ UNCHANGED <<inFlag, outFlag, dir, out, basePkg, astPkgs, todo, cur, methods,
                   subpkgs, built, ifacePkgs, implPkgs, dirs, fs, writes, second, prev>>

\* getStructs, lines 260-284, and getSubpackages, lines 228-237
GetStructs ==
    /\ pc = "getStructs"
    /\ \E order \in Orders(DOMAIN StructMap(methods, fields)) :
         subpkgs' = Put(subpkgs, cur, Package(cur, inFlag, getStructs(methods, fields, order)))
    /\ todo' = todo \ {cur}
    /\ pc' = "getSubpackages"
    /\ UNCHANGED <<inFlag, outFlag, dir, out, basePkg, astPkgs, cur, methods, fields,
                   built, ifacePkgs, implPkgs, dirs, fs, writes, failed, exit, second,
                   prev>>

\* getSubpackages, line 240, and genCode up to line 147
SubpackagesDone ==
    /\ pc = "getSubpackages"
    /\ todo = {}
    /\ pc' = "genCode"
    /\ todo' = DOMAIN subpkgs
    /\ UNCHANGED <<inFlag, outFlag, dir, out, basePkg, astPkgs, cur, methods, fields,
                   subpkgs, built, ifacePkgs, implPkgs, dirs, fs, writes, failed, exit,
                   second, prev>>

\* genCode, lines 147-203: one iteration of the range over subpkgs
GenPkg ==
    /\ pc = "genCode"
    /\ \E p \in todo :
         LET ifaces   == buildIfaces(subpkgs[p])
             ifacePkg == Format(IfaceFile(p, ifaces), IfaceSyntaxOK(ifaces))
             impls    == buildImpls(subpkgs[p])
             implPkg  == Format(ImplFile(p, subpkgs[p].ImportPath, basePkg, impls),
                                ImplSyntaxOK(impls))
         IN IF ~ifacePkg.ok
            THEN /\ Exit(1, {"format"})
                 /\ built' = Put(built, p, [ifaces |-> ifaces, impls |-> <<>>, both |-> FALSE])
                 /\ ifacePkgs' = <<>>
                 /\ implPkgs' = <<>>
                 /\ UNCHANGED todo
            ELSE IF ~implPkg.ok
            THEN /\ Exit(1, {"format"})
                 /\ built' = Put(built, p, [ifaces |-> ifaces, impls |-> impls, both |-> TRUE])
                 /\ ifacePkgs' = <<>>
                 /\ implPkgs' = <<>>
                 /\ UNCHANGED todo
            ELSE /\ built' = Put(built, p, [ifaces |-> ifaces, impls |-> impls, both |-> TRUE])
                 /\ ifacePkgs' = Put(ifacePkgs, p \o <<"iface">>, ifacePkg.val)
                 /\ implPkgs' = Put(implPkgs, p, implPkg.val)
                 /\ todo' = todo \ {p}
                 /\ UNCHANGED <<pc, exit, failed>>
    /\ UNCHANGED <<inFlag, outFlag, dir, out, basePkg, astPkgs, cur, methods, fields,
                   subpkgs, dirs, fs, writes, second, prev>>

\* genCode, line 205, and main up to line 86
GenCodeDone ==
    /\ pc = "genCode"
    /\ todo = {}
    /\ pc' = "writeIfaces"
    /\ todo' = DOMAIN ifacePkgs
    /\ UNCHANGED <<inFlag, outFlag, dir, out, basePkg, astPkgs, cur, methods, fields,
                   subpkgs, built, ifacePkgs, implPkgs, dirs, fs, writes, failed, exit,
                   second, prev>>

\* the body of the loops of main, lines 87-99 and 103-115
WritePkg(pkgName, pkg) ==
    LET pkgPath == Join(out, pkgName)
        pkgFile == Join(pkgPath, pkgName \o <<".go">>)
    IN \E res \in {"ok", "mkdir", "write"} :
         IF res = "mkdir"
         THEN /\ Exit(1, {"mkdir"})
              /\ UNCHANGED <<dirs, fs, writes, todo>>
         ELSE IF res = "write"
         THEN /\ Exit(1, {"write"})
              /\ dirs' = dirs \cup {pkgPath}
              /\ UNCHANGED <<fs, writes, todo>>
         ELSE /\ dirs' = dirs \cup {pkgPath}
              /\ fs' = Put(fs, pkgFile, pkg)
              /\ writes' = Append(writes, pkgFile)
              /\ todo' = todo \ {pkgName}
              /\ UNCHANGED <<pc, exit, failed>>

\* main, lines 86-100: one iteration of the range over ifacePkgs
WriteIface ==
    /\ pc = "writeIfaces"
    /\ \E pkgName \in todo : WritePkg(pkgName, ifacePkgs[pkgName])
    /\ UNCHANGED <<inFlag, outFlag, dir, out, basePkg, astPkgs, cur, methods, fields,
                   subpkgs, built, ifacePkgs, implPkgs, second, prev>>

\* main, line 102
IfacesDone ==
    /\ pc = "writeIfaces"
    /\ todo = {}
    /\ pc' = "writeImpls"
    /\ todo' = DOMAIN implPkgs
    /\ UNCHANGED <<inFlag, outFlag, dir, out, basePkg, astPkgs, cur, methods, fields,
                   subpkgs, built, ifacePkgs, implPkgs, dirs, fs, writes, failed, exit,
                   second, prev>>

\* main, lines 102-116: one iteration of the range over implPkgs
WriteImpl ==
    /\ pc = "writeImpls"
    /\ \E pkgName \in todo : WritePkg(pkgName, implPkgs[pkgName])
    /\ UNCHANGED <<inFlag, outFlag, dir, out, basePkg, astPkgs, cur, methods, fields,
                   subpkgs, built, ifacePkgs, implPkgs, second, prev>>

\* main, line 117
ImplsDone ==
    /\ pc = "writeImpls"
    /\ todo = {}
    /\ Exit(0, {})
    /\ UNCHANGED <<inFlag, outFlag, dir, out, basePkg, astPkgs, todo, cur, methods,
                   fields, subpkgs, built, ifacePkgs, implPkgs, dirs, fs, writes,
                   second, prev>>

\* the tool is run once more with the same flags on the unchanged directory
Rerun ==
    /\ pc = "exit"
    /\ exit = 0
    /\ failed = {}
    /\ ~second
    /\ second' = TRUE
    /\ prev' = [iface |-> ifacePkgs, impl |-> implPkgs]
    /\ pc' = "main"
    /\ out' = <<>>
    /\ basePkg' = <<>>
    /\ astPkgs' = <<>>
    /\ todo' = {}
    /\ cur' = <<>>
    /\ methods' = <<>>
    /\ fields' = <<>>
    /\ subpkgs' = <<>>
    /\ built' = <<>>
    /\ ifacePkgs' = <<>>
    /\ implPkgs' = <<>>
    /\ writes' = <<>>
    /\ failed' = {}
    /\ exit' = -1
    /\ UNCHANGED <<inFlag, outFlag, dir, dirs, fs>>

Next ==
    \/ Main
    \/ ParsePkg
    \/ GetMethods
    \/ GetFields
    \/ GetStructs
    \/ SubpackagesDone
    \/ GenPkg
    \/ GenCodeDone
    \/ WriteIface
    \/ IfacesDone
    \/ WriteImpl
    \/ ImplsDone

Spec == Init /\ [][Next]_vars

NextTwice == Next \/ Rerun

\* two runs on the same input
SpecTwice == Init /\ [][NextTwice]_vars

---------------------------------------------------------------------------
(* What the source declares, read off the declarations themselves *)

\* the declarations of the parsed files of package p
DeclsOf(p) == UNION {Range(f.decls) : f \in astPkgs[p]}

\* the exported struct types declared in package p
ExportedStructs(p) ==
    {d \in DeclsOf(p) : d.kind = "type" /\ d.isStruct /\ IsExported(<<d.name>>)}

\* every name of every group, in order; an unnamed entry counts once
Flat(groups) ==
    Concat([i \in 1..Len(groups) |->
              IF groups[i].names = <<>> THEN <<Field(<<>>, groups[i].type)>>
              ELSE [k \in 1..Len(groups[i].names) |->
                      Field(<<groups[i].names[k]>>, groups[i].type)]])

IsPublicField(f) == IsExported(f.Name)

\* the exported named fields of a struct declaration, in order
DeclaredFields(d) == SelectSeq(Flat(d.fields), IsPublicField)

\* the exported methods package p declares on the type called name
DeclaredMethods(p, name) ==
    {d \in DeclsOf(p) : /\ d.kind = "func"
                        /\ d.recv \in {name, <<"*">> \o name}
                        /\ IsExported(<<d.name>>)}

\* a declared method as a Method record
AsMethod(d) == Method(<<d.name>>, Flat(d.params), Flat(d.results))

\* the entries of a comma-separated list
Entries(s) == IF Trim(s) = <<>> THEN <<>>
              ELSE LET parts == Split(s, ",") IN [k \in 1..Len(parts) |-> Trim(parts[k])]

\* s without the qualifier q wherever it occurs
Unqualified(s, q) ==
    LET at   == {i \in 1..Len(s) : HasPrefix(SubSeq(s, i, Len(s)), q)}
        gone == {i \in 1..Len(s) : \E j \in at : j <= i /\ i < j + Len(q)}
        keep == (1..Len(s)) \ gone
    IN [k \in 1..Cardinality(keep) |-> s[Nth(keep, k)]]

---------------------------------------------------------------------------
(* Claims *)

\* C1: when getStructs has returned for a package whose files could all be
\* read, every exported struct the parsed files of the package declare has
\* exactly one record of its name,
\* and the record carries the struct's exported fields and exported methods
C1_CompleteDiscovery ==
    \A p \in DOMAIN subpkgs :
      \A d \in ExportedStructs(p) :
        "read" \notin failed =>
        LET recs == {i \in 1..Len(subpkgs[p].Structs) : subpkgs[p].Structs[i].Name = <<d.name>>}
        IN /\ Cardinality(recs) = 1
           /\ \A i \in recs :
                /\ subpkgs[p].Structs[i].Fields = DeclaredFields(d)
                /\ Range(subpkgs[p].Structs[i].Methods)
                     = {AsMethod(m) : m \in DeclaredMethods(p, <<d.name>>)}

\* C2: every record getStructs returns is named after an exported struct type
\* the package declares
C2_SoundDiscovery ==
    \A p \in DOMAIN subpkgs :
      \A i \in 1..Len(subpkgs[p].Structs) :
        \E d \in ExportedStructs(p) : subpkgs[p].Structs[i].Name = <<d.name>>

\* the wrapper method w forwards the declared method m unchanged
Forwards(w, m) ==
    LET want == Flat(m.params)
        args == Entries(w.Args)
    IN /\ w.Name = <<m.name>>
       /\ w.Callee = <<"x", ".", "parent", ".", m.name>>
       /\ Len(Entries(w.Params)) = Len(want)
       /\ Len(Entries(w.Results)) = Len(Flat(m.results))
       /\ Len(args) = Len(want)
       /\ \A k \in 1..Len(args) :
            /\ args[k] # <<>>
            /\ want[k].Name # <<>> => args[k] = want[k].Name
            /\ \A l \in 1..Len(args) : args[k] = args[l] => k = l

\* C3: when every file could be read, every exported method declared on an
\* extracted struct has a wrapper
\* method that declares all its parameters and results and passes every
\* parameter on, once and in order; every accessor returns its field of parent
C3_ForwardingUnchanged ==
    \A p \in DOMAIN built :
      \A i \in 1..Len(built[p].impls) :
        LET impl == built[p].impls[i]
        IN "read" \notin failed =>
           /\ \A m \in DeclaredMethods(p, impl.StructName) :
                \E j \in 1..Len(impl.Methods) : Forwards(impl.Methods[j], m)
           /\ \A j \in 1..Len(impl.Fields) :
                impl.Fields[j].Ret = <<"x", ".", "parent", ".">> \o impl.Fields[j].Name

\* the <pkg>iface. qualifier of package p
Qualifier(p) == p \o <<"iface", ".">>

\* C4: whenever buildIfaces and buildImpls have both run for a package, they
\* have one declaration per extracted struct, in the same order and of the same
\* names, and the wrapper's accessors and methods have the names, parameter
\* lists and result lists of the interface's, up to the <pkg>iface. qualifier
C4_WrappersImplementInterfaces ==
    \A p \in DOMAIN built :
      built[p].both =>
        LET ifaces == built[p].ifaces
            impls  == built[p].impls
            same(a, b) == Unqualified(a, Qualifier(p)) = Unqualified(b, Qualifier(p))
        IN /\ Len(ifaces) = Len(subpkgs[p].Structs)
           /\ Len(impls) = Len(subpkgs[p].Structs)
           /\ \A i \in 1..Len(ifaces) :
                /\ ifaces[i].Name = subpkgs[p].Structs[i].Name
                /\ impls[i].StructName = ifaces[i].Name
                /\ Len(impls[i].Fields) = Len(ifaces[i].Fields)
                /\ Len(impls[i].Fields) = Len(subpkgs[p].Structs[i].Fields)
                /\ \A j \in 1..Len(ifaces[i].Fields) :
                     /\ impls[i].Fields[j].Name = ifaces[i].Fields[j].Name
                     /\ same(impls[i].Fields[j].Type, ifaces[i].Fields[j].Type)
                /\ Len(impls[i].Methods) = Len(ifaces[i].Methods)
                /\ Len(impls[i].Methods) = Len(subpkgs[p].Structs[i].Methods)
                /\ \A j \in 1..Len(ifaces[i].Methods) :
                     /\ impls[i].Methods[j].Name = ifaces[i].Methods[j].Name
                     /\ same(impls[i].Methods[j].Params, ifaces[i].Methods[j].Params)
                     /\ same(impls[i].Methods[j].Results, ifaces[i].Methods[j].Results)
                     /\ Len(Entries(impls[i].Methods[j].Params))
                          = Len(subpkgs[p].Structs[i].Methods[j].Params)

\* C4, witness: both builders have run for a package with a struct that has a
\* field and a method, and a type of the wrapper carries the qualifier
C4_Witness ==
    \E p \in DOMAIN built :
      /\ built[p].both
      /\ \E i \in 1..Len(built[p].impls) :
           /\ Len(built[p].impls[i].Fields) > 0
           /\ \E j \in 1..Len(built[p].impls[i].Methods) :
                built[p].impls[i].Methods[j].Results # built[p].ifaces[i].Methods[j].Results

\* C5: getFields never indexes outside a file's text, and when it has returned
\* for a package whose files could all be read, it maps every exported struct
\* the parsed files declare to the struct's exported named fields, in order,
\* with their types as written
C5_FieldExtractionExact ==
    /\ "getFields panic" \notin failed
    /\ (pc = "getStructs" /\ "read" \notin failed) =>
         \A d \in ExportedStructs(cur) :
           /\ <<d.name>> \in DOMAIN fields
           /\ fields[<<d.name>>] = DeclaredFields(d)

\* the failures genCode is to report
Reported == {"parse", "read", "reparse", "format"}

\* C6: once parsing, reading a file, extraction or formatting has failed, the
\* run has ended with status 1, genCode has returned no maps, and no directory
\* and no file has been made
C6_FirstErrorTerminates ==
    failed \cap Reported # {} =>
      /\ pc = "exit"
      /\ exit = 1
      /\ ifacePkgs = <<>>
      /\ implPkgs = <<>>
      /\ dirs = {}
      /\ fs = <<>>
      /\ writes = <<>>

C8_Deterministic ==
    (second /\ pc = "writeIfaces" /\ failed = {}) =>
      /\ ifacePkgs = prev.iface
      /\ implPkgs = prev.impl

\* the type strings buildImpls passes to maybeAddIfacePkg for package pkg
PassedTypes(pkg) ==
    UNION {{pkg.Structs[i].Fields[j].Type : j \in 1..Len(pkg.Structs[i].Fields)}
           \cup UNION {{pkg.Structs[i].Methods[j].Params[k].Type :
                            k \in 1..Len(pkg.Structs[i].Methods[j].Params)}
                       \cup {pkg.Structs[i].Methods[j].Results[k].Type :
                            k \in 1..Len(pkg.Structs[i].Methods[j].Results)}
                       : j \in 1..Len(pkg.Structs[i].Methods)}
           : i \in 1..Len(pkg.Structs)}

\* the names of the structs of pkg
StructNames(pkg) == {pkg.Structs[i].Name : i \in 1..Len(pkg.Structs)}

\* C9: for every type string buildImpls passes to maybeAddIfacePkg, the call
\* does not index out of range; the result is the string with <pkg>iface. put
\* before the type name, behind a leading '*', exactly when the string without
\* one leading '*' is the name of a struct of the package; it is the string
\* itself otherwise; and the function maps its result to itself
C9_MaybeAddIfacePkg ==
    \A p \in DOMAIN built :
      built[p].both =>
        \A typ \in PassedTypes(subpkgs[p]) :
          LET r    == maybeAddIfacePkg(subpkgs[p], typ)
              ptr  == typ # <<>> /\ typ[1] = "*"
              base == IF ptr THEN Tail(typ) ELSE typ
          IN /\ r.ok
             /\ base \in StructNames(subpkgs[p]) =>
                  r.val = (IF ptr THEN <<"*">> ELSE <<>>) \o Qualifier(p) \o base
             /\ base \notin StructNames(subpkgs[p]) => r.val = typ
             /\ maybeAddIfacePkg(subpkgs[p], r.val).val = r.val

\* C9, witness: buildImpls has run for a package and has passed a pointer to
\* a struct of the package, the name of one, and a type that is neither
C9_Witness ==
    \E p \in DOMAIN built :
      /\ built[p].both
      /\ \E t1, t2, t3 \in PassedTypes(subpkgs[p]) :
           /\ t1[1] = "*" /\ Tail(t1) \in StructNames(subpkgs[p])
           /\ t2 \in StructNames(subpkgs[p])
           /\ t3[1] = "*" /\ Tail(t3) \notin StructNames(subpkgs[p])

\* C10: a run that ends with status 0 and without any failure has written
\* 2*|P| files for the parsed packages P, no path twice, and holds for each N
\* in P the interface text at <out>/<N>iface/<N>iface.go and the wrapper text
\* at <out>/<N>/<N>.go
C10_OutputLayout ==
    (pc = "exit" /\ exit = 0 /\ failed = {}) =>
      /\ Len(writes) = 2 * Cardinality(DOMAIN astPkgs)
      /\ \A i, j \in 1..Len(writes) : writes[i] = writes[j] => i = j
      /\ \A N \in DOMAIN astPkgs :
           LET ifaceFile == Join(Join(out, N \o <<"iface">>), N \o <<"iface", ".go">>)
               implFile  == Join(Join(out, N), N \o <<".go">>)
           IN /\ ifaceFile \in DOMAIN fs
              /\ implFile \in DOMAIN fs
              /\ fs[ifaceFile] = ifacePkgs[N \o <<"iface">>]
              /\ fs[implFile] = implPkgs[N]

====
